---- MODULE Spec2Model ----
(***************************************************************************)
(* Model of lib/trade_models/quant_transformer.py: the QuantTransformer    *)
(* training loop (fit), its loss / metric / epoch helpers, the inference   *)
(* batcher (predict) and the reshape of the embedding front-end            *)
(* (SimpleEmbed.forward).                                                  *)
(*                                                                         *)
(* Floating point values are modelled as exact rationals plus the two      *)
(* special values the code meets: not-a-number and minus infinity.         *)
(* Model parameters (a state_dict) are modelled by an identifier: 0 is the *)
(* state after construction and every optimizer step yields an identifier  *)
(* never used before, so two state_dicts are equal iff their ids are.      *)
(* The network itself is not modelled: what it predicts for a row is an    *)
(* input of every epoch.  Exceptions are modelled by their Python class.   *)
(***************************************************************************)
EXTENDS Integers, Sequences, FiniteSets, TLC

\* ------------------------------------------------------------------ bounds
MaxEpochs == 3
MaxEarlyStop == 2
MaxPredictRows == 2
MaxChunk == 1
MaxRowLen == 8
MaxEmbedDim == 2
MaxDFeat == 3
MaxBatchRows == 2

\* ------------------------------------------------------- float arithmetic
RECURSIVE GCD(_, _)
GCD(a, b) == IF b = 0 THEN a ELSE GCD(b, a % b)

Abs(x) == IF x < 0 THEN -x ELSE x

NaN == [k |-> "nan", n |-> 0, d |-> 1]
NegInf == [k |-> "ninf", n |-> 0, d |-> 1]

\* the rational n/d (d > 0) in lowest terms
Reduced(n, d, g) == [k |-> "fin", n |-> n \div g, d |-> d \div g]

Fin(n, d) == Reduced(n, d, GCD(Abs(n), d))

isnan(x) == x.k = "nan"
isfinite(x) == x.k = "fin"

\* IEEE comparison a > b: false as soon as one side is not-a-number
FGt(a, b) ==
    IF isnan(a) \/ isnan(b) THEN FALSE
    ELSE IF a.k = "ninf" THEN FALSE
    ELSE IF b.k = "ninf" THEN TRUE
    ELSE a.n * b.d > b.n * a.d

\* minus infinity is only ever the initial best_score and is only compared,
\* so the arithmetic below meets finite values and not-a-number
FNeg(a) == IF a.k = "fin" THEN Fin(-a.n, a.d) ELSE a

FAdd(a, b) ==
    IF isnan(a) \/ isnan(b) THEN NaN
    ELSE IF a.k = "ninf" \/ b.k = "ninf" THEN NegInf
    ELSE Fin(a.n * b.d + b.n * a.d, a.d * b.d)

FSub(a, b) == FAdd(a, FNeg(b))

FMul(a, b) ==
    IF a.k = "fin" /\ b.k = "fin" THEN Fin(a.n * b.n, a.d * b.d) ELSE NaN

FDivInt(a, m) ==
    IF isnan(a) THEN NaN
    ELSE IF a.k = "ninf" THEN NegInf
    ELSE Fin(a.n, a.d * m)

RECURSIVE FSum(_)
FSum(s) == IF s = <<>> THEN Fin(0, 1) ELSE FAdd(Head(s), FSum(Tail(s)))

\* np.mean / the mean reduction of torch: 0/0 = not-a-number on an empty list
mean(s) == IF Len(s) = 0 THEN NaN ELSE FDivInt(FSum(s), Len(s))

\* ------------------------------------------------------------ loss, metric
\* a batch is a sequence of rows [pred |-> float, label |-> float]
Square(x) == FMul(x, x)

SqErr(r) == Square(FSub(r.pred, r.label))

mse_loss(rows) == mean([i \in 1..Len(rows) |-> SqErr(rows[i])])

Ok(v) == [err |-> "none", val |-> v]
Raise(e) == [err |-> e, val |-> NaN]

\* loss_fn: the format argument self.loss of the raise does not exist, so
\* the raise statement itself fails with AttributeError
loss_fn(rows, loss) ==
    LET keep(r) == ~isnan(r.label)
    IN  IF loss = "mse" THEN Ok(mse_loss(SelectSeq(rows, keep)))
        ELSE Raise("AttributeError")

\* the result of metric_fn, given the result l of its loss_fn call
Negated(l) == IF l.err = "none" THEN Ok(FNeg(l.val)) ELSE l

metric_fn(rows, loss, metric) ==
    LET keep(r) == isfinite(r.label)
    IN  IF metric = "" \/ metric = "loss"
        THEN Negated(loss_fn(SelectSeq(rows, keep), loss))
        ELSE Raise("ValueError")

\* what test_epoch / train_epoch append to `scores` for a batch whose loss
\* and metric_fn score are given: the loss
ScoreAppended(loss, score) == loss

\* test_epoch over a sequence of batches: the loop body for one batch,
\* given the results l of loss_fn and s of metric_fn on it
RECURSIVE EpochFold(_, _, _, _, _)
FoldBatch(rest, loss, metric, losses, scores, l, s) ==
    IF l.err # "none"
    THEN [err |-> l.err, loss |-> NaN, score |-> NaN, nbatch |-> Len(losses)]
    ELSE IF s.err # "none"
    THEN [err |-> s.err, loss |-> NaN, score |-> NaN, nbatch |-> Len(losses)]
    ELSE EpochFold(rest, loss, metric, Append(losses, l.val),
                   Append(scores, ScoreAppended(l.val, s.val)))

EpochFold(batches, loss, metric, losses, scores) ==
    IF batches = <<>>
    THEN [err |-> "none", loss |-> mean(losses), score |-> mean(scores),
          nbatch |-> Len(losses)]
    ELSE FoldBatch(Tail(batches), loss, metric, losses, scores,
                   loss_fn(Head(batches), loss),
                   metric_fn(Head(batches), loss, metric))

test_epoch(batches, loss, metric) == EpochFold(batches, loss, metric, <<>>, <<>>)

\* train_epoch: the same bookkeeping, and one optimizer step for every batch
\* whose loss and score were computed (nbatch)
train_epoch(batches, loss, metric) == EpochFold(batches, loss, metric, <<>>, <<>>)

\* ------------------------------------------------------------ data loading
OptimizerNames == {"adam", "sgd"}
LossNames == {"mse", "mae"}
MetricNames == {"", "ic"}
LabelValues == {Fin(0, 1), NaN}
BatchSizes == {1, 2}

\* what the network predicts for a row: on the validation partition either
\* the label value or one off it; the train and test scores do not enter
\* the loop's decisions and their rows are always predicted 0
ValidPredValues == {0, 1}
OtherPredValues == {0}

\* the fit calls made on one model object: a first one and a second one
FitCalls == {1, 2}

NoParam == -1

SeqsUpTo(S, m) == UNION {[1..k -> S] : k \in 0..m}

Min(a, b) == IF a < b THEN a ELSE b

\* _prepare_loader: consecutive batches of batch_size rows, the last one
\* shorter (drop_last=False)
RECURSIVE Batches(_, _)
Batches(rows, bs) ==
    IF Len(rows) = 0 THEN <<>>
    ELSE <<SubSeq(rows, 1, Min(bs, Len(rows)))>>
         \o Batches(SubSeq(rows, Min(bs, Len(rows)) + 1, Len(rows)), bs)

\* _prepare_dataset: the label column of shape (n, 1) is squeezed; for n = 1
\* that leaves a tensor without dimensions and the size check of
\* TensorDataset raises IndexError, for any other n the shape is (n,)
prepare_dataset(labels) == IF Len(labels) = 1 THEN "IndexError" ELSE "none"

\* _prepare_loader: the random sampler of a shuffled loader refuses an empty
\* dataset
prepare_loader(labels, shuffle) ==
    IF shuffle /\ Len(labels) = 0 THEN "ValueError" ELSE "none"

\* lines 179-188: the three datasets, then the three loaders; the first
\* exception raised
Loaders(d) ==
    IF prepare_dataset(d.train) # "none" THEN prepare_dataset(d.train)
    ELSE IF prepare_dataset(d.valid) # "none" THEN prepare_dataset(d.valid)
    ELSE IF prepare_dataset(d.test) # "none" THEN prepare_dataset(d.test)
    ELSE IF prepare_loader(d.train, TRUE) # "none" THEN prepare_loader(d.train, TRUE)
    ELSE IF prepare_loader(d.valid, FALSE) # "none" THEN prepare_loader(d.valid, FALSE)
    ELSE prepare_loader(d.test, FALSE)

\* the rows a loader serves, with what the network predicts for them: row i
\* pairs the prediction with its label
Rows(labels, preds) ==
    [i \in 1..Len(labels) |-> [pred |-> Fin(preds[i], 1), label |-> labels[i]]]

Perms(n) == {f \in [1..n -> 1..n] : \A i, j \in 1..n : f[i] = f[j] => i = j}

Shuffled(rows, perm) == [i \in 1..Len(rows) |-> rows[perm[i]]]

\* ------------------------------------------------------------------- state
VARIABLES
    pc,            \* position: "init", "ctor_failed", "idle", "baseline", "epoch",
                   \*   "restore", "save", "mark", "done", "failed"
    opt_config,    \* self.opt_config
    metric,        \* self.metric
    fitted,        \* self.fitted
    params,        \* self.model.state_dict(), as an identifier
    nsteps,        \* optimizer steps applied since construction
    data,          \* labels of the train / valid / test partitions the loaders
                   \*   of the latest fit call serve
    iepoch,        \* loop variable of fit
    stop_steps,
    best_score,
    best_epoch,
    best_param,    \* NoParam while the local variable is unbound
    evals_result,
    saved,         \* content of the file at save_path, NoParam if none
    nsaves,        \* torch.save calls of the current fit
    err,           \* exception surfaced by the last call, "none" if it returned
    epoch_params,  \* history: params right after each epoch's training
    valid_losses,  \* history: the valid_loss local of each _internal_test call
    embed,         \* a call of SimpleEmbed.forward: its input and outcome
    completed,     \* fit calls that returned
    ncalls,        \* fit calls made
    presult        \* outcome of the latest call when it was a predict call

vars == <<pc, opt_config, metric, fitted, params, nsteps, data, iepoch,
          stop_steps, best_score, best_epoch, best_param, evals_result,
          saved, nsaves, err, epoch_params, valid_losses, embed,
          completed, ncalls, presult>>

fitvars == <<iepoch, stop_steps, best_score, best_epoch, best_param,
             evals_result, epoch_params, valid_losses>>

NoConfig == [epochs |-> 0, early_stop |-> 0, loss |-> "mse",
             optimizer |-> "adam", batch_size |-> 1]
NoData == [train |-> <<>>, valid |-> <<>>, test |-> <<>>]
NoResult == [err |-> "none", index |-> <<>>, values |-> <<>>, chunks |-> <<>>,
             nrun |-> 0, n |-> 0, bs |-> 0, called |-> FALSE]

NoEmbed == [state |-> "none", N |-> 0, L |-> 0, d_feat |-> 1, embed_dim |-> 1,
            err |-> "none", seq |-> <<>>, out |-> <<>>]

Start ==
    /\ pc = "init"
    /\ opt_config = NoConfig
    /\ metric = ""
    /\ fitted = FALSE
    /\ params = 0
    /\ nsteps = 0
    /\ data = NoData
    /\ iepoch = 0
    /\ stop_steps = 0
    /\ best_score = NegInf
    /\ best_epoch = 0
    /\ best_param = NoParam
    /\ evals_result = [train |-> <<>>, valid |-> <<>>]
    /\ saved = NoParam
    /\ nsaves = 0
    /\ err = "none"
    /\ epoch_params = <<>>
    /\ valid_losses = <<>>
    /\ completed = 0
    /\ ncalls = 0
    /\ presult = NoResult

Init ==
    /\ Start
    /\ embed = NoEmbed

\* ------------------------------------------------------------ construction
\* the optimizer selection of __init__: the second branch repeats "adam" and
\* is dead; the raise of the last branch formats the undefined name
\* `optimizer`, so it fails with NameError
OptimizerError(name) == IF name = "adam" THEN "none" ELSE "NameError"

Construct ==
    /\ pc = "init"
    /\ \E e \in 0..MaxEpochs, es \in 0..MaxEarlyStop, l \in LossNames,
          o \in OptimizerNames, bs \in BatchSizes, m \in MetricNames :
        /\ opt_config' = [epochs |-> e, early_stop |-> es, loss |-> l,
                          optimizer |-> o, batch_size |-> bs]
        /\ metric' = m
        /\ err' = OptimizerError(o)
        /\ pc' = IF OptimizerError(o) = "none" THEN "idle" ELSE "ctor_failed"
    /\ fitted' = FALSE
    /\ UNCHANGED <<params, nsteps, data, saved, nsaves, completed, ncalls,
                   presult, embed>>
    /\ UNCHANGED fitvars

\* --------------------------------------------------------------------- fit
\* _internal_test: test_epoch over the train, valid and test loaders
InternalResult(tr, va, te) ==
    [err |-> IF tr.err # "none" THEN tr.err
             ELSE IF va.err # "none" THEN va.err ELSE te.err,
     train |-> tr.score, valid |-> va.score, test |-> te.score,
     valid_loss |-> va.loss]

TrainPreds(labels) == [1..Len(labels) -> OtherPredValues]
ValidPreds(labels) == [1..Len(labels) -> ValidPredValues]

\* the partitions dataset.prepare returns: a train partition of no row, of
\* one row or of three rows the last of which has no label, up to two
\* validation rows, one or two test rows
TrainPartitions ==
    {<<>>, <<Fin(0, 1)>>, <<Fin(0, 1), Fin(0, 1), NaN>>}

ValidPartitions == SeqsUpTo(LabelValues, 2)

TestPartitions == {<<Fin(0, 1)>>, <<Fin(0, 1), Fin(0, 1)>>}

Datasets ==
    [train : TrainPartitions,
     valid : ValidPartitions,
     test  : TestPartitions]

\* the partitions the loaders can be built on
Loadable == {d \in Datasets : Loaders(d) = "none"}

\* the exceptions lines 174-188 raise on the other partitions
Refusals == {Loaders(d) : d \in Datasets \ Loadable}

\* test_epoch over a loader of the rows `labels`: one result for every
\* prediction of the network and, for a shuffled loader, every order in
\* which it serves the rows
Passes(labels, preds, orders) ==
    {test_epoch(Batches(Shuffled(Rows(labels, p), perm), opt_config.batch_size),
                opt_config.loss, metric) : p \in preds, perm \in orders}

Identity(n) == {[i \in 1..n |-> i]}

\* lines 200-207: the results _internal_test can return on the partitions
\* d.  The train loader is the shuffled one (line 185): every pass over it,
\* the evaluation passes included, serves the rows in a fresh random order.
InternalTest(d) ==
    {InternalResult(tr, va, te) :
        tr \in Passes(d.train, TrainPreds(d.train), Perms(Len(d.train))),
        va \in Passes(d.valid, ValidPreds(d.valid), Identity(Len(d.valid))),
        te \in Passes(d.test, TrainPreds(d.test), Identity(Len(d.test)))}

\* line 214: the results train_epoch can return on the train loader
TrainEpochs(d) ==
    {train_epoch(Batches(Shuffled(Rows(d.train, tp), perm), opt_config.batch_size),
                 opt_config.loss, metric) :
        tp \in TrainPreds(d.train), perm \in Perms(Len(d.train))}

\* the epoch transition rule of fit
Improved_NotStrict(valid_score, best) ==
    FGt(valid_score, best) \/ (isfinite(best) /\ valid_score = best)

Improved(valid_score, best) == FGt(valid_score, best)

EarlyStop_Late(stop, early_stop) == stop > early_stop

EarlyStop(stop, early_stop) == stop >= early_stop

\* lines 190-198: initialise the loop variables and clear the run record
FitStart(d) ==
    /\ pc' = "baseline"
    /\ data' = d
    /\ iepoch' = 0
    /\ stop_steps' = 0
    /\ best_score' = NegInf
    /\ best_epoch' = 0
    /\ best_param' = NoParam
    /\ evals_result' = [train |-> <<>>, valid |-> <<>>]
    /\ epoch_params' = <<>>
    /\ valid_losses' = <<>>
    /\ UNCHANGED err

\* lines 174-188 raised e: no loader serves the partitions, nothing of the
\* call has happened, the run record is the one the previous call left
FitRefused(e) ==
    /\ pc' = "failed"
    /\ err' = e
    /\ UNCHANGED data
    /\ UNCHANGED fitvars

\* a call of fit, on a new model or on one that fit was called on before
\* (the call does not look at fitted and leaves it as it is): lines 174-198,
\* build the loaders, then start
FitBegin ==
    /\ pc \in {"idle", "done", "failed"}
    /\ ncalls + 1 \in FitCalls
    /\ ncalls' = ncalls + 1
    /\ \/ \E e \in Refusals : FitRefused(e)
       \/ \E d \in Loadable : FitStart(d)
    /\ nsaves' = 0
    /\ presult' = NoResult
    /\ UNCHANGED <<opt_config, metric, fitted, params, nsteps, saved,
                   completed, embed>>

\* line 209: the evaluation before training; its scores are only logged
Baseline ==
    /\ pc = "baseline"
    /\ \E ev \in InternalTest(data) :
        /\ err' = ev.err
        /\ pc' = IF ev.err # "none" THEN "failed"
                 ELSE IF opt_config.epochs = 0 THEN "restore" ELSE "epoch"
    /\ UNCHANGED <<opt_config, metric, fitted, params, nsteps, data, saved,
                   nsaves, completed, ncalls, presult, embed>>
    /\ UNCHANGED fitvars

\* lines 222-229: the epoch transition rule, for the validation score of
\* the epoch, the parameters after its training and whether it improved
Transition_SnapshotOnce(valid_score, newparams, improved, stop) ==
    /\ stop_steps' = stop
    /\ best_epoch' = IF improved THEN iepoch ELSE best_epoch
    /\ best_score' = IF improved THEN valid_score ELSE best_score
    /\ best_param' = IF improved /\ best_param = NoParam THEN newparams
                     ELSE best_param
    /\ IF ~improved /\ EarlyStop(stop, opt_config.early_stop)
       THEN /\ iepoch' = iepoch
            /\ pc' = "restore"
       ELSE /\ iepoch' = iepoch + 1
            /\ pc' = IF iepoch + 1 >= opt_config.epochs THEN "restore" ELSE "epoch"

Transition(valid_score, newparams, improved, stop) ==
    /\ stop_steps' = stop
    /\ best_epoch' = IF improved THEN iepoch ELSE best_epoch
    /\ best_score' = IF improved THEN valid_score ELSE best_score
    /\ best_param' = IF improved THEN newparams ELSE best_param
    /\ IF ~improved /\ EarlyStop(stop, opt_config.early_stop)
       THEN /\ iepoch' = iepoch
            /\ pc' = "restore"
       ELSE /\ iepoch' = iepoch + 1
            /\ pc' = IF iepoch + 1 >= opt_config.epochs THEN "restore" ELSE "epoch"

\* lines 214-229: the loop body, given the result tr of train_epoch, the
\* result ev of _internal_test and the parameters after the training
EpochBody(tr, ev, newparams, improved) ==
    /\ params' = newparams
    /\ nsteps' = nsteps + tr.nbatch
    /\ IF tr.err # "none" \/ ev.err # "none"
       THEN /\ pc' = "failed"
            /\ err' = IF tr.err # "none" THEN tr.err ELSE ev.err
            /\ UNCHANGED fitvars
       ELSE /\ err' = "none"
            /\ evals_result' = [train |-> Append(evals_result.train, ev.train),
                                valid |-> Append(evals_result.valid, ev.valid)]
            /\ epoch_params' = Append(epoch_params, newparams)
            /\ valid_losses' = Append(valid_losses, ev.valid_loss)
            /\ Transition(ev.valid, newparams, improved,
                          IF improved THEN 0 ELSE stop_steps + 1)

EpochResults(tr, ev) ==
    EpochBody(tr, ev, IF tr.nbatch = 0 THEN params ELSE nsteps + tr.nbatch,
              Improved(ev.valid, best_score))

\* lines 211-229: one iteration of the epoch loop
Epoch ==
    /\ pc = "epoch"
    /\ iepoch < opt_config.epochs
    /\ \E tr \in TrainEpochs(data), ev \in InternalTest(data) :
        EpochResults(tr, ev)
    /\ UNCHANGED <<opt_config, metric, fitted, data, saved, nsaves,
                   completed, ncalls, presult, embed>>

\* load_state_dict: the live parameters become the given state_dict
load_state_dict_Skipped(live, state_dict) == live

load_state_dict(live, state_dict) == state_dict

\* line 232: self.model.load_state_dict(best_param); the local best_param is
\* unbound when no epoch improved
Restore ==
    /\ pc = "restore"
    /\ IF best_param = NoParam
       THEN /\ pc' = "failed"
            /\ err' = "UnboundLocalError"
            /\ UNCHANGED params
       ELSE /\ pc' = "save"
            /\ params' = load_state_dict(params, best_param)
            /\ UNCHANGED err
    /\ UNCHANGED <<opt_config, metric, fitted, nsteps, data, saved, nsaves,
                   completed, ncalls, presult, embed>>
    /\ UNCHANGED fitvars

\* line 233: torch.save(best_param, save_path); the write can fail
Save ==
    /\ pc = "save"
    /\ \/ /\ saved' = best_param
          /\ nsaves' = nsaves + 1
          /\ pc' = "mark"
          /\ UNCHANGED err
       \/ /\ pc' = "failed"
          /\ err' = "OSError"
          /\ UNCHANGED <<saved, nsaves>>
    /\ UNCHANGED <<opt_config, metric, fitted, params, nsteps, data,
                   completed, ncalls, presult, embed>>
    /\ UNCHANGED fitvars

\* lines 235-237: use_gpu returns None, so only self.fitted = True runs
Mark ==
    /\ pc = "mark"
    /\ fitted' = TRUE
    /\ pc' = "done"
    /\ completed' = completed + 1
    /\ UNCHANGED <<opt_config, metric, params, nsteps, data, saved, nsaves,
                   err, ncalls, presult, embed>>
    /\ UNCHANGED fitvars

\* ----------------------------------------------------------------- predict
\* the chunks [begin, end) of lines 251-256, begin = 0, bs, 2 bs, ... < n
RECURSIVE Chunks(_, _, _)
Chunks(n, bs, begin) ==
    IF begin >= n THEN <<>>
    ELSE LET end == IF n - begin < bs THEN n ELSE begin + bs
         IN  <<[begin |-> begin, end |-> end]>> \o Chunks(n, bs, begin + bs)

\* x_values[begin:end], as row numbers
ChunkRows(c) == [i \in 1..(c.end - c.begin) |-> c.begin + i - 1]

RECURSIVE Concatenate(_)
Concatenate(cs) ==
    IF cs = <<>> THEN <<>> ELSE ChunkRows(Head(cs)) \o Concatenate(Tail(cs))

\* lines 244-268 of predict on a table of n rows; bs = 0 stands for a model
\* object without a batch_size attribute.  values[i] is the row whose
\* prediction is at position i of the returned series, index[i] the row
\* identifier there; np.concatenate fails on an empty list of chunks.
Series(n, cs, values) ==
    IF cs = <<>>
    THEN [err |-> "ValueError", index |-> <<>>, values |-> <<>>,
          chunks |-> cs, nrun |-> 0]
    ELSE [err |-> "none", index |-> [i \in 1..n |-> i - 1],
          values |-> values, chunks |-> cs, nrun |-> Len(values)]

predict_rows(n, bs) ==
    IF bs = 0
    THEN [err |-> "AttributeError", index |-> <<>>, values |-> <<>>,
          chunks |-> <<>>, nrun |-> 0]
    ELSE Series(n, Chunks(n, bs, 0), Concatenate(Chunks(n, bs, 0)))

\* lines 241-242: the fitted check in front of it
predict_Unchecked(isFitted, n, bs) == predict_rows(n, bs)

predict(isFitted, n, bs) ==
    IF ~isFitted
    THEN [err |-> "ValueError", index |-> <<>>, values |-> <<>>,
          chunks |-> <<>>, nrun |-> 0]
    ELSE predict_rows(n, bs)

Returned(r, n, bs) ==
    /\ presult' = r @@ [n |-> n, bs |-> bs, called |-> TRUE]
    /\ err' = r.err

\* the table and the batch_size attribute are only read past the fitted
\* check, so an unfitted model fails the same way whatever they are
Predict ==
    /\ pc \in {"idle", "done", "failed"}
    /\ IF fitted
       THEN \E n \in 0..MaxPredictRows, bs \in 0..MaxChunk :
                Returned(predict(fitted, n, bs), n, bs)
       ELSE Returned(predict(fitted, 0, 0), 0, 0)
    /\ UNCHANGED <<pc, opt_config, metric, fitted, params, nsteps, data,
                   saved, nsaves, completed, ncalls, embed>>
    /\ UNCHANGED fitvars

Next ==
    \/ Construct
    \/ FitBegin
    \/ Baseline
    \/ Epoch
    \/ Restore
    \/ Save
    \/ Mark
    \/ Predict

Spec == Init /\ [][Next]_vars

\* ------------------------------------------------------------- SimpleEmbed
\* Tensor.reshape(a, b, -1) of a tensor of numel elements: the size of the
\* last dimension, or -1 when torch raises (the size cannot be inferred)
reshape_NoCheck(numel, a, b) ==
    IF a * b = 0 THEN -1 ELSE numel \div (a * b)

reshape(numel, a, b) ==
    IF a * b = 0 THEN -1
    ELSE IF numel % (a * b) # 0 THEN -1
    ELSE numel \div (a * b)

\* SimpleEmbed.forward on x of shape (N, L): the shape after the permute
\* (seq) and the shape returned (out)
Projected(N, T, d_feat, embed_dim) ==
    IF T = -1
    THEN [err |-> "RuntimeError", seq |-> <<>>, out |-> <<>>]
    ELSE [err |-> "none", seq |-> <<N, T, d_feat>>, out |-> <<N, T, embed_dim>>]

forward(N, L, d_feat, embed_dim) ==
    Projected(N, reshape(N * L, N, d_feat), d_feat, embed_dim)

Forwarded(r) ==
    [embed EXCEPT !.state = "out", !.err = r.err, !.seq = r.seq, !.out = r.out]

InitEmbed ==
    /\ Start
    /\ \E N \in 1..MaxBatchRows, L \in 0..MaxRowLen, d \in 1..MaxDFeat,
          e \in 1..MaxEmbedDim :
        embed = [NoEmbed EXCEPT !.state = "in", !.N = N, !.L = L,
                                !.d_feat = d, !.embed_dim = e]

EmbedForward ==
    /\ embed.state = "in"
    /\ embed' = Forwarded(forward(embed.N, embed.L, embed.d_feat, embed.embed_dim))
    /\ UNCHANGED <<pc, opt_config, metric, fitted, params, nsteps, data,
                   saved, nsaves, err, completed, ncalls, presult>>
    /\ UNCHANGED fitvars

NextEmbed == EmbedForward

SpecEmbed == InitEmbed /\ [][NextEmbed]_vars

\* ------------------------------------------------------------- properties
\* best validation score over the first i entries of a record, recomputed
\* from the record alone
RECURSIVE RunBest(_, _)
RunBest(v, i) ==
    IF i = 0 THEN NegInf
    ELSE IF FGt(v[i], RunBest(v, i - 1)) THEN v[i] ELSE RunBest(v, i - 1)

\* the epochs (1-based positions of the record) whose validation score
\* strictly improved on the best so far
ImprovingEpochs(v) == {i \in 1..Len(v) : FGt(v[i], RunBest(v, i - 1))}

LastImproving(v) ==
    CHOOSE i \in ImprovingEpochs(v) : \A j \in ImprovingEpochs(v) : j <= i

\* the exceptions by which the code reports a state error: the ValueError of
\* predict (line 242) and the unbound best_param of fit (line 232)
StateError == {"ValueError", "UnboundLocalError"}

\* the validation scores of the first K epochs strictly increase and the
\* next es epochs repeat the K-th score
IncreasesThenConstant(v, K, es) ==
    /\ Len(v) >= K + es
    /\ FGt(v[1], NegInf)
    /\ \A i \in 1..(K - 1) : FGt(v[i + 1], v[i])
    /\ \A i \in (K + 1)..(K + es) : v[i] = v[K]

\* C1: when the validation score strictly increases for the first K epochs
\* and then stays constant for early_stop further epochs (K >= 1,
\* early_stop >= 1, K + early_stop <= epochs), exactly K + early_stop epochs
\* are trained: the loop is left after epoch K + early_stop, the snapshot
\* held is the one of epoch K, and the file written holds that snapshot.
C1_EarlyStopAtKPlusPatience ==
    \A K \in 1..MaxEpochs :
        ( /\ pc \in {"epoch", "restore", "save", "mark", "done"}
          /\ opt_config.early_stop >= 1
          /\ K + opt_config.early_stop <= opt_config.epochs
          /\ IncreasesThenConstant(evals_result.valid, K, opt_config.early_stop) )
        => /\ pc # "epoch"
           /\ Len(evals_result.valid) = K + opt_config.early_stop
           /\ Len(epoch_params) = K + opt_config.early_stop
           /\ best_param = epoch_params[K]
           /\ pc \in {"mark", "done"} => saved = epoch_params[K]

\* C1 witness: two improving epochs, one stalled epoch, early_stop = 1; the
\* stalled epoch trained the parameters further, and the file holds the
\* snapshot of epoch 2.
C1_Witness ==
    /\ pc = "done"
    /\ opt_config.early_stop = 1
    /\ opt_config.epochs = 3
    /\ IncreasesThenConstant(evals_result.valid, 2, 1)
    /\ Len(epoch_params) = 3
    /\ epoch_params[3] # epoch_params[2]
    /\ saved = epoch_params[2]

\* the snapshot of the best-validation-score epoch of the current call is
\* what the live parameters and the file hold, and the call wrote the file
\* once
BestSnapshotHeld ==
    /\ ImprovingEpochs(evals_result.valid) # {}
    /\ params = epoch_params[LastImproving(evals_result.valid)]
    /\ saved = epoch_params[LastImproving(evals_result.valid)]
    /\ nsaves = 1

\* C2: when a fit call has returned, the live parameters and the file both
\* hold the snapshot of the best-validation-score epoch; the call writes the
\* file once and never before the epoch loop is left; fitted turns true only
\* in the last step of a call, after its restore and its write.
C2_FinalStateIsBestSnapshot ==
    /\ [](/\ pc \in {"baseline", "epoch", "restore", "save"} => nsaves = 0
          /\ pc \in {"mark", "done"} => BestSnapshotHeld
          /\ pc = "done" => fitted)
    /\ [][fitted' # fitted =>
             /\ ~fitted /\ fitted'
             /\ pc = "mark" /\ pc' = "done"
             /\ BestSnapshotHeld]_vars

\* C2 witness: fit returned, the best epoch was not the last one trained and
\* the last epoch had changed the parameters.
C2_Witness ==
    /\ pc = "done"
    /\ fitted
    /\ Len(epoch_params) = 3
    /\ LastImproving(evals_result.valid) = 1
    /\ epoch_params[3] # epoch_params[1]
    /\ params = epoch_params[1]
    /\ saved = epoch_params[1]

MinOf(a, b) == IF a < b THEN a ELSE b

\* C3 as stated: after a successful fit both lists of the run record have
\* min(epochs, improving_epoch + early_stop + 1) entries (improving_epoch
\* counted from 0) and a parameter file exists.
C3_RecordLength_AsStated ==
    pc = "done" =>
        /\ Len(evals_result.valid) =
              MinOf(opt_config.epochs,
                    (LastImproving(evals_result.valid) - 1) + opt_config.early_stop + 1)
        /\ Len(evals_result.train) = Len(evals_result.valid)
        /\ saved # NoParam

\* C3 amended: the same, for early_stop >= 1.
C3_RecordLength ==
    (pc = "done" /\ opt_config.early_stop >= 1) =>
        /\ Len(evals_result.valid) =
              MinOf(opt_config.epochs,
                    (LastImproving(evals_result.valid) - 1) + opt_config.early_stop + 1)
        /\ Len(evals_result.train) = Len(evals_result.valid)
        /\ saved # NoParam

\* C3 witness: early stop cut the run short of the configured epochs.
C3_Witness ==
    /\ pc = "done"
    /\ opt_config.early_stop = 1
    /\ opt_config.epochs = 3
    /\ LastImproving(evals_result.valid) = 1
    /\ Len(evals_result.valid) = 2
    /\ Len(evals_result.train) = 2
    /\ saved # NoParam

\* C4: as long as no fit call has returned on the model, fitted is false and
\* a predict call fails with the state error without running the model on
\* any row.
C4_PredictNeedsFit ==
    (pc \notin {"init", "ctor_failed"} /\ completed = 0) =>
        /\ ~fitted
        /\ presult.called =>
              /\ presult.err = "ValueError"
              /\ presult.err \in StateError
              /\ err = presult.err
              /\ presult.nrun = 0
              /\ presult.values = <<>>

\* C4 witness: predict was called after a fit call that raised.
C4_Witness ==
    /\ pc = "failed"
    /\ completed = 0
    /\ presult.called
    /\ presult.err = "ValueError"
    /\ presult.nrun = 0

\* the rows 0 .. n-1 in order
RowIds(n) == [i \in 1..n |-> i - 1]

\* the chunks are contiguous, in increasing order, and cover rows 0 .. n-1
ChunksCover(cs, n) ==
    /\ n > 0 => Len(cs) >= 1
    /\ Len(cs) >= 1 => cs[1].begin = 0 /\ cs[Len(cs)].end = n
    /\ \A i \in 1..Len(cs) : cs[i].begin < cs[i].end
    /\ \A i \in 1..(Len(cs) - 1) : cs[i].end = cs[i + 1].begin

\* C5 as stated: on a fitted model, for a table of n >= 0 rows and a chunk
\* size >= 1, predict returns one prediction per row, in row order, under
\* the original row identifiers, from contiguous chunks covering 0 .. n-1.
C5_PredictOrder_AsStated ==
    (fitted /\ presult.called /\ presult.bs >= 1) =>
        /\ presult.err = "none"
        /\ presult.values = RowIds(presult.n)
        /\ presult.index = RowIds(presult.n)
        /\ presult.nrun = presult.n
        /\ ChunksCover(presult.chunks, presult.n)

\* C6 as stated: the score test_epoch returns for a non-empty validation
\* loader is never not-a-number, also when a batch has only not-a-number
\* labels (predictions are finite throughout).
C6_NoNaNAggregate_AsStated ==
    (pc \in {"epoch", "restore", "save", "mark", "done"} /\ data.valid # <<>>) =>
        \A i \in 1..Len(evals_result.valid) :
            /\ ~isnan(evals_result.valid[i])
            /\ ~isnan(valid_losses[i])

\* the epochs of lowest validation loss
LowestLoss(ls) ==
    {i \in 1..Len(ls) : ~isnan(ls[i]) /\ \A j \in 1..Len(ls) : ~FGt(ls[i], ls[j])}

\* C7 as stated: with metric unset, the validation score appended to the run
\* record is the negated validation loss, and the snapshot restored at the
\* end is the one of an epoch of lowest validation loss.
C7_ScoreIsNegatedLoss_AsStated ==
    metric = "" =>
        /\ \A i \in 1..Len(evals_result.valid) :
              evals_result.valid[i] = FNeg(valid_losses[i])
        /\ pc = "done" =>
              \E i \in LowestLoss(valid_losses) : params = epoch_params[i]

\* C8 as stated: when a fit call in which no epoch improved the validation
\* score has raised, it raised the state error, it wrote no file, the live
\* parameters are the ones the last optimizer step left (nothing was
\* restored) and fitted is false.
C8_NeverImprovedFails_AsStated ==
    ( /\ pc = "failed"
      /\ err = "UnboundLocalError"
      /\ ImprovingEpochs(evals_result.valid) = {} )
    => /\ err \in StateError
       /\ nsaves = 0
       /\ epoch_params # <<>> => params = epoch_params[Len(epoch_params)]
       /\ ~fitted

\* the exceptions the raise statements for an unsupported optimizer, loss or
\* metric name are written to raise (lines 93, 107, 114)
ConfigurationError == {"NotImplementedError", "ValueError"}

\* C9 as stated: an optimizer name other than "adam" makes construction fail
\* with the configuration error, an unsupported loss name makes fit fail
\* with it at the first use of the loss, before any optimizer step; the
\* model is never marked fitted.
C9_ConfigurationError_AsStated ==
    /\ []((pc # "init" /\ opt_config.optimizer # "adam") =>
            pc = "ctor_failed" /\ err \in ConfigurationError /\ ~fitted)
    /\ [](opt_config.loss # "mse" => ~fitted /\ nsteps = 0 /\ params = 0)
    /\ [][(pc = "baseline" /\ opt_config.loss # "mse") =>
             pc' = "failed" /\ err' \in ConfigurationError]_vars

Divides(d, L) == \E T \in 0..L : L = d * T

\* C10 as stated: the front-end accepts a row length L iff L = d_feat * T
\* for some T >= 1 and then yields T timesteps of d_feat features; a length
\* not divisible by d_feat fails.
C10_EmbedShape_AsStated ==
    embed.state = "out" =>
        /\ embed.err = "none" <=>
              \E T \in 1..embed.L : embed.L = embed.d_feat * T
        /\ embed.err = "none" =>
              embed.seq = <<embed.N, embed.L \div embed.d_feat, embed.d_feat>>
        /\ ~Divides(embed.d_feat, embed.L) => embed.err = "RuntimeError"

\* C10 amended: the front-end accepts a row length L iff d_feat divides L,
\* the empty row (L = 0, no timestep) included, and then yields L / d_feat
\* timesteps of d_feat features; a length not divisible by d_feat fails.
C10_EmbedShape ==
    embed.state = "out" =>
        /\ embed.err = "none" <=> Divides(embed.d_feat, embed.L)
        /\ embed.err = "none" =>
              /\ embed.seq = <<embed.N, embed.L \div embed.d_feat, embed.d_feat>>
              /\ embed.out = <<embed.N, embed.L \div embed.d_feat, embed.embed_dim>>
        /\ ~Divides(embed.d_feat, embed.L) => embed.err = "RuntimeError"

\* C10 witness: an accepted input of three timesteps and a rejected one.
C10_Witness ==
    /\ embed.state = "out"
    /\ embed.d_feat = 2
    /\ \/ embed.L = 6 /\ embed.err = "none" /\ embed.seq = <<embed.N, 3, 2>>
       \/ embed.L = 5 /\ embed.err = "RuntimeError"

\* the first epoch (1-based position of the record) whose validation score
\* is a number that no other score of the record exceeds
FirstMax(v) ==
    CHOOSE j \in 1..Len(v) :
        /\ ~isnan(v[j])
        /\ \A k \in 1..Len(v) : ~FGt(v[k], v[j])
        /\ \A k \in 1..(j - 1) : v[k] # v[j]

HasScore(v) == \E j \in 1..Len(v) : ~isnan(v[j])

\* the states after the transition rule of an epoch; the last epoch trained
\* is epoch Len(evals_result.valid) - 1
AfterEpoch ==
    /\ pc \in {"epoch", "restore", "save", "mark", "done"}
    /\ Len(evals_result.valid) >= 1

\* the bookkeeping of C11 as stated, after epoch i = Len(valid) - 1
LoopInvariant_AsStated ==
    AfterEpoch =>
        /\ HasScore(evals_result.valid)
        /\ best_score = evals_result.valid[FirstMax(evals_result.valid)]
        /\ best_epoch = FirstMax(evals_result.valid) - 1
        /\ best_param = epoch_params[FirstMax(evals_result.valid)]
        /\ stop_steps = (Len(evals_result.valid) - 1) - best_epoch
        /\ pc = "epoch" =>
              /\ stop_steps < opt_config.early_stop
              /\ Len(evals_result.valid) < opt_config.epochs
        /\ Len(evals_result.valid) <= opt_config.epochs

\* the same, with the two cases the code has besides: no epoch has had a
\* score that is a number yet, and the epoch that just improved
LoopInvariant ==
    AfterEpoch =>
        /\ HasScore(evals_result.valid) =>
              /\ best_score = evals_result.valid[FirstMax(evals_result.valid)]
              /\ best_epoch = FirstMax(evals_result.valid) - 1
              /\ best_param = epoch_params[FirstMax(evals_result.valid)]
              /\ stop_steps = (Len(evals_result.valid) - 1) - best_epoch
        /\ ~HasScore(evals_result.valid) =>
              /\ best_score = NegInf
              /\ best_epoch = 0
              /\ best_param = NoParam
              /\ stop_steps = Len(evals_result.valid)
        /\ pc = "epoch" =>
              /\ \/ stop_steps < opt_config.early_stop
                 \/ stop_steps = 0 /\ HasScore(evals_result.valid)
              /\ Len(evals_result.valid) < opt_config.epochs
        /\ Len(evals_result.valid) <= opt_config.epochs
        /\ Len(epoch_params) = Len(evals_result.valid)

\* the steps a fit call still has to take at most: the baseline evaluation,
\* the epochs left to train, then the restore, the write and the assignment
\* of fitted
StepsLeft(p, i) ==
    IF p = "baseline" THEN opt_config.epochs + 4
    ELSE IF p = "epoch" THEN (opt_config.epochs - i) + 3
    ELSE IF p = "restore" THEN 3
    ELSE IF p = "save" THEN 2
    ELSE IF p = "mark" THEN 1
    ELSE 0

\* fit terminates: inside the loop the next epoch can be trained and its
\* index is the number of epochs trained, and every step of fit lowers
\* StepsLeft, which is never negative
LoopVariant ==
    /\ pc = "epoch" => iepoch < opt_config.epochs
    /\ pc = "epoch" => iepoch = Len(evals_result.valid)
    /\ StepsLeft(pc, iepoch) >= 0

FitStepAdvances ==
    pc \in {"baseline", "epoch", "restore", "save", "mark"} =>
        StepsLeft(pc', iepoch') < StepsLeft(pc, iepoch)

\* C11 as stated: after the transition rule of every epoch i, best_score is
\* the maximum validation score over epochs 0..i, best_epoch the first epoch
\* that attained it, the snapshot the parameters right after that epoch's
\* training, the stall counter i - best_epoch; the loop goes on to epoch
\* i+1 only if the stall counter is below early_stop and i+1 < epochs; fit
\* trains at most `epochs` epochs and terminates.
C11_LoopInvariant_AsStated ==
    /\ [](LoopInvariant_AsStated /\ LoopVariant)
    /\ [][FitStepAdvances]_vars

\* C11 amended: as stated once some epoch has had a validation score that
\* is a number; until then best_score is minus infinity, no snapshot is
\* held and the stall counter is i + 1.  The loop goes on to epoch i+1 only
\* if i+1 < epochs and either epoch i improved or the stall counter is below
\* early_stop.  fit trains at most `epochs` epochs and terminates.
C11_LoopInvariant ==
    /\ [](LoopInvariant /\ LoopVariant)
    /\ [][FitStepAdvances]_vars

\* C11 witness: the loop is about to train a third epoch; the first epoch
\* holds the best score, the second one stalled and moved the parameters on.
C11_Witness ==
    /\ pc = "epoch"
    /\ Len(evals_result.valid) = 2
    /\ opt_config.early_stop = 2
    /\ FirstMax(evals_result.valid) = 1
    /\ best_epoch = 0
    /\ stop_steps = 1
    /\ best_param = epoch_params[1]
    /\ epoch_params[2] # epoch_params[1]
    /\ params = epoch_params[2]

====
